---- MODULE Spec2Model ----
(***************************************************************************)
(* Model of evemapping's signature data model (src/src/eve_data.rs), of    *)
(* the session state with its merge engine (src/src/state.rs) and of the   *)
(* key handling of the terminal loop (src/src/interface.rs).               *)
(*                                                                         *)
(* A Rust String is a sequence of one-character strings, so that split,    *)
(* take, replace and format! are computed as the code computes them.       *)
(* Option<T> is a sequence of length 0 (None) or 1 (Some).                 *)
(***************************************************************************)
EXTENDS Integers, Sequences, FiniteSets, TLC

VARIABLES current_system, system_data, data_index, view, panicked, merges, last

vars == <<current_system, system_data, data_index, view, panicked, merges, last>>

(***************************************************************************)
(* Bounds of the model.                                                    *)
(***************************************************************************)
\* merge_in calls in one run
MaxMerges == 2
\* candidates in one hand-built batch
MaxBatch == 1
\* lines in one clipboard text
MaxLines == 2

(***************************************************************************)
(* Text.                                                                   *)
(***************************************************************************)
None == <<>>

Some(x) == <<x>>

s_empty == <<>>
s_ABC == <<"A", "B", "C">>
s_DEF == <<"D", "E", "F">>
s_GHI == <<"G", "H", "I">>
s_123 == <<"1", "2", "3">>
s_456 == <<"4", "5", "6">>
s_789 == <<"7", "8", "9">>
s_dash == <<"-">>
s_4 == <<"4">>
s_Wormhole == <<"W", "o", "r", "m", "h", "o", "l", "e">>
s_Gas == <<"G", "a", "s">>
s_Relic == <<"R", "e", "l", "i", "c">>
s_Data == <<"D", "a", "t", "a">>
s_Combat == <<"C", "o", "m", "b", "a", "t">>
s_Ore == <<"O", "r", "e">>
s_Site == <<" ", "S", "i", "t", "e">>
s_Foobar == <<"F", "o", "o", "b", "a", "r">>
s_SomeCombatSite == <<"S", "o", "m", "e", " ", "C", "o", "m", "b", "a", "t", " ", "S", "i", "t", "e">>
s_K162 == <<"K", "1", "6", "2">>
s_A239 == <<"A", "2", "3", "9">>
s_CosmicSignature == <<"C", "o", "s", "m", "i", "c", " ", "S", "i", "g", "n", "a", "t", "u", "r", "e">>
s_UnstableWormhole == <<"U", "n", "s", "t", "a", "b", "l", "e", " ", "W", "o", "r", "m", "h", "o", "l", "e">>
s_nonsense == <<"s", "o", "m", "e", " ", "r", "a", "n", "d", "o", "m", " ", "n", "o", "n", "s", "e", "n", "s", "e">>
s_blank == <<" ", " ", " ">>
s_J173213 == <<"J", "1", "7", "3", "2", "1", "3">>
s_Thera == <<"T", "h", "e", "r", "a">>

\* position of the first c in s, 0 when there is none
IndexOf(s, c) ==
    IF \E i \in 1..Len(s) : s[i] = c
    THEN CHOOSE i \in 1..Len(s) : s[i] = c /\ \A j \in 1..(i - 1) : s[j] # c
    ELSE 0

\* str::split(c): the pieces between the occurrences of c, at least one piece
RECURSIVE Split(_, _)
Split(s, c) ==
    LET i == IndexOf(s, c)
    IN IF i = 0
       THEN <<s>>
       ELSE <<SubSeq(s, 1, i - 1)>> \o Split(SubSeq(s, i + 1, Len(s)), c)

\* str::split_terminator(c): split(c) without a trailing empty piece
SplitTerminator(s, c) ==
    LET p == Split(s, c)
    IN IF p[Len(p)] = <<>> THEN SubSeq(p, 1, Len(p) - 1) ELSE p

\* chars().take(n).collect()
Take(s, n) == SubSeq(s, 1, IF Len(s) < n THEN Len(s) ELSE n)

\* iterator skip(n)
Skip(s, n) == SubSeq(s, n + 1, Len(s))

StartsWith(s, pat) == Len(pat) <= Len(s) /\ SubSeq(s, 1, Len(pat)) = pat

\* str::replace(pat, ""), pat not empty
RECURSIVE RemoveAll(_, _)
RemoveAll(s, pat) ==
    IF s = <<>>
    THEN <<>>
    ELSE IF StartsWith(s, pat)
         THEN RemoveAll(SubSeq(s, Len(pat) + 1, Len(s)), pat)
         ELSE <<s[1]>> \o RemoveAll(Tail(s), pat)

Whitespace == {" ", "\t", "\n"}

\* text.trim().is_empty()
TrimIsEmpty(s) == \A i \in 1..Len(s) : s[i] \in Whitespace

RECURSIVE Join(_, _)
Join(parts, sep) ==
    IF parts = <<>>
    THEN <<>>
    ELSE IF Len(parts) = 1
         THEN parts[1]
         ELSE parts[1] \o sep \o Join(Tail(parts), sep)

(***************************************************************************)
(* eve_data.rs: identifiers, classifications, signatures.                  *)
(***************************************************************************)
SignatureId(id, number) == [id |-> id, number |-> number]

\* mutant: the identifier is rendered without the dash
FmtSignatureId_NoDash(sid) == sid.id \o sid.number

\* impl fmt::Display for SignatureId
FmtSignatureId(sid) == sid.id \o s_dash \o sid.number

SignatureWormhole(wh_type, destination, life, mass) ==
    [wh_type |-> wh_type, destination |-> destination, life |-> life, mass |-> mass]

SignatureWormholeDefault == SignatureWormhole(None, None, "Stable", "Stable")

Unknown == [kind |-> "Unknown"]

Wormhole(wh) == [kind |-> "Wormhole", wh |-> wh]

Combat(name) == [kind |-> "Combat", name |-> name]

Ore(name) == [kind |-> "Ore", name |-> name]

Data(name) == [kind |-> "Data", name |-> name]

Relic(name) == [kind |-> "Relic", name |-> name]

Gas(name) == [kind |-> "Gas", name |-> name]

NamedKinds == {"Combat", "Ore", "Data", "Relic", "Gas"}

has_name(t) ==
    CASE t.kind = "Unknown" -> FALSE
      [] t.kind = "Wormhole" -> TRUE
      [] OTHER -> t.name # None

Signature(id, number, ty) ==
    [identifier |-> SignatureId(id, number), signature_type |-> ty]

ClipboardItem(id, sig_type, sig_name) ==
    [id |-> id, sig_type |-> sig_type, sig_name |-> sig_name]

\* impl From<&ClipboardItem> for (SignatureId, SignatureType): the two
\* id_parts.next().unwrap() succeed iff split('-') yields two pieces or more
CanConvert(val) == Len(Split(val.id, "-")) >= 2

\* impl From<&ClipboardItem> for (SignatureId, SignatureType), where it returns
FromClipboardItem(val) ==
    LET id_parts == Split(val.id, "-")
        id == SignatureId(id_parts[1], id_parts[2])
        name == IF val.sig_name = <<>> THEN None ELSE Some(val.sig_name)
        st == IF val.sig_type = s_Wormhole THEN Wormhole(SignatureWormholeDefault)
              ELSE IF val.sig_type = s_Gas THEN Gas(name)
              ELSE IF val.sig_type = s_Relic THEN Relic(name)
              ELSE IF val.sig_type = s_Data THEN Data(name)
              ELSE IF val.sig_type = s_Combat THEN Combat(name)
              ELSE Unknown
    IN [identifier |-> id, signature_type |-> st]

SiteLabels == {s_Gas \o s_Site, s_Relic \o s_Site, s_Data \o s_Site, s_Combat \o s_Site}

\* mutant: a "Wormhole" line keeps its name field
ParseLine_KeepsWormholeName(line) ==
    LET id == Take(line, 7)
        parts == Skip(Split(line, "\t"), 2)
    IN IF parts = <<>>
       THEN <<>>
       ELSE IF parts[1] = s_Wormhole \/ parts[1] \in SiteLabels
            THEN LET name == IF Len(parts) >= 2 THEN parts[2] ELSE s_empty
                 IN <<ClipboardItem(id, RemoveAll(parts[1], s_Site), name)>>
            ELSE <<ClipboardItem(id, s_empty, s_empty)>>

\* the body of parse_paste's loop for one line: the items it pushes
ParseLine(line) ==
    LET id == Take(line, 7)
        parts == Skip(Split(line, "\t"), 2)
    IN IF parts = <<>>
       THEN <<>>
       ELSE IF parts[1] = s_Wormhole
            THEN <<ClipboardItem(id, s_Wormhole, s_empty)>>
            ELSE IF parts[1] \in SiteLabels
                 THEN LET name == IF Len(parts) >= 2 THEN parts[2] ELSE s_empty
                      IN <<ClipboardItem(id, RemoveAll(parts[1], s_Site), name)>>
                 ELSE <<ClipboardItem(id, s_empty, s_empty)>>

RECURSIVE ParseLines(_)
ParseLines(lines) ==
    IF lines = <<>> THEN <<>> ELSE ParseLine(lines[1]) \o ParseLines(Tail(lines))

\* mutant: the early return for blank text is missing
parse_paste_NoBlankCheck(text) == ParseLines(SplitTerminator(text, "\n"))

parse_paste(text) ==
    IF TrimIsEmpty(text) THEN <<>> ELSE ParseLines(SplitTerminator(text, "\n"))

(***************************************************************************)
(* state.rs: App and merge_in.                                             *)
(***************************************************************************)
Normal == [mode |-> "Normal"]

\* new_data.iter().find(|d| d.id == id): the index of the first such item, or 0
FindCandidate(new_data, id) ==
    IF \E i \in 1..Len(new_data) : new_data[i].id = id
    THEN CHOOSE i \in 1..Len(new_data) :
             new_data[i].id = id /\ \A j \in 1..(i - 1) : new_data[j].id # id
    ELSE 0

\* mutant: an uncategorised item resets the signature to Unknown
UpdateType_UnknownResets(signature_type, new_type) ==
    CASE new_type.kind = "Wormhole" ->
            IF signature_type.kind = "Wormhole"
            THEN signature_type
            ELSE Wormhole(SignatureWormholeDefault)
      [] OTHER ->
            IF has_name(new_type)
            THEN new_type
            ELSE IF has_name(signature_type) /\ new_type.kind # "Unknown"
                 THEN signature_type
                 ELSE new_type

\* mutant: the check that the existing classification has a name is missing
UpdateType_NoNameCheck(signature_type, new_type) ==
    CASE new_type.kind = "Unknown" -> signature_type
      [] new_type.kind = "Wormhole" ->
            IF signature_type.kind = "Wormhole"
            THEN signature_type
            ELSE Wormhole(SignatureWormholeDefault)
      [] OTHER -> new_type

\* mutant: a "Wormhole" item overwrites an existing wormhole with the default detail
UpdateType_WormholeReset(signature_type, new_type) ==
    CASE new_type.kind = "Unknown" -> signature_type
      [] new_type.kind = "Wormhole" -> Wormhole(SignatureWormholeDefault)
      [] OTHER ->
            IF has_name(new_type)
            THEN new_type
            ELSE IF has_name(signature_type) THEN signature_type ELSE new_type

\* mutant: the existing name is checked first, so a named item cannot replace it
UpdateType_KeepNamed(signature_type, new_type) ==
    CASE new_type.kind = "Unknown" -> signature_type
      [] new_type.kind = "Wormhole" ->
            IF signature_type.kind = "Wormhole"
            THEN signature_type
            ELSE Wormhole(SignatureWormholeDefault)
      [] OTHER ->
            IF has_name(signature_type) THEN signature_type ELSE new_type

\* mutant: an uncategorised item clears the name of a site
UpdateType_UnknownClearsName(signature_type, new_type) ==
    CASE new_type.kind = "Unknown" ->
            IF signature_type.kind \in NamedKinds
            THEN [signature_type EXCEPT !.name = None]
            ELSE signature_type
      [] new_type.kind = "Wormhole" ->
            IF signature_type.kind = "Wormhole"
            THEN signature_type
            ELSE Wormhole(SignatureWormholeDefault)
      [] OTHER ->
            IF has_name(new_type)
            THEN new_type
            ELSE IF has_name(signature_type) THEN signature_type ELSE new_type

\* the match on new_type of pass 1: the classification the signature has afterwards
UpdateType(signature_type, new_type) ==
    CASE new_type.kind = "Unknown" -> signature_type
      [] new_type.kind = "Wormhole" ->
            IF signature_type.kind = "Wormhole"
            THEN signature_type
            ELSE Wormhole(SignatureWormholeDefault)
      [] OTHER ->
            IF has_name(new_type)
            THEN new_type
            ELSE IF has_name(signature_type) THEN signature_type ELSE new_type

\* pass 1 from the i-th existing signature on; a failed conversion ends it
RECURSIVE UpdateExisting(_, _, _)
UpdateExisting(existing, new_data, i) ==
    IF i > Len(existing)
    THEN [sigs |-> existing, panicked |-> FALSE]
    ELSE LET signature == existing[i]
             k == FindCandidate(new_data, FmtSignatureId(signature.identifier))
         IN IF k = 0
            THEN UpdateExisting(existing, new_data, i + 1)
            ELSE IF ~CanConvert(new_data[k])
                 THEN [sigs |-> existing, panicked |-> TRUE]
                 ELSE LET new_type == FromClipboardItem(new_data[k]).signature_type
                          updated == [signature EXCEPT !.signature_type =
                                          UpdateType(signature.signature_type, new_type)]
                      IN UpdateExisting([existing EXCEPT ![i] = updated], new_data, i + 1)

Contains(ids, id) == \E i \in 1..Len(ids) : ids[i] = id

\* pass 2 from the i-th item of new_data on; a failed conversion ends it
RECURSIVE InsertNew(_, _, _, _)
InsertNew(existing, existing_ids, new_data, i) ==
    IF i > Len(new_data)
    THEN [sigs |-> existing, panicked |-> FALSE]
    ELSE IF ~CanConvert(new_data[i])
         THEN [sigs |-> existing, panicked |-> TRUE]
         ELSE LET new_sig == FromClipboardItem(new_data[i])
              IN IF ~Contains(existing_ids, new_sig.identifier)
                 THEN InsertNew(Append(existing, new_sig), existing_ids, new_data, i + 1)
                 ELSE InsertNew(existing, existing_ids, new_data, i + 1)

\* the map with key k set to v
MapInsert(map, k, v) ==
    [s \in (DOMAIN map) \cup {k} |-> IF s = k THEN v ELSE map[s]]

App(cur, data, index, v) ==
    [current_system |-> cur, system_data |-> data, data_index |-> index, view |-> v]

\* mutant: the map is rebuilt with the selected system alone
merge_into_OnlyCurrentKept(app, current, new_data) ==
    LET existing == IF current \in DOMAIN app.system_data
                    THEN app.system_data[current]
                    ELSE <<>>
        existing_ids == [i \in 1..Len(existing) |-> existing[i].identifier]
        pass1 == UpdateExisting(existing, new_data, 1)
        pass2 == InsertNew(pass1.sigs, existing_ids, new_data, 1)
    IN IF pass1.panicked
       THEN [app |-> [app EXCEPT !.system_data = [s \in {current} |-> pass1.sigs]],
             panicked |-> TRUE]
       ELSE [app |-> [app EXCEPT !.system_data = [s \in {current} |-> pass2.sigs]],
             panicked |-> pass2.panicked]

\* the body of App::merge_in for the selected system current: the App it leaves and
\* whether a conversion panicked on the way
merge_into(app, current, new_data) ==
    LET data == IF current \in DOMAIN app.system_data
                THEN app.system_data
                ELSE MapInsert(app.system_data, current, <<>>)
        existing == data[current]
        existing_ids == [i \in 1..Len(existing) |-> existing[i].identifier]
        pass1 == UpdateExisting(existing, new_data, 1)
        pass2 == InsertNew(pass1.sigs, existing_ids, new_data, 1)
    IN IF pass1.panicked
       THEN [app |-> [app EXCEPT !.system_data = MapInsert(data, current, pass1.sigs)],
             panicked |-> TRUE]
       ELSE [app |-> [app EXCEPT !.system_data = MapInsert(data, current, pass2.sigs)],
             panicked |-> pass2.panicked]

\* mutant: no system selected is taken as the system named "" (unwrap_or_default)
merge_in_NoneAsDefault(app, new_data) ==
    merge_into(app,
               IF app.current_system = None THEN s_empty ELSE app.current_system[1],
               new_data)

\* mutant: signatures the batch does not list are dropped before the merge
merge_in_DropUnmatched(app, new_data) ==
    IF app.current_system = None \/ app.current_system[1] \notin DOMAIN app.system_data
    THEN merge_in_NoneAsDefault(app, new_data)
    ELSE LET current == app.current_system[1]
             Listed(sig) == FindCandidate(new_data, FmtSignatureId(sig.identifier)) # 0
             kept == SelectSeq(app.system_data[current], Listed)
         IN merge_into([app EXCEPT !.system_data = MapInsert(app.system_data, current, kept)],
                       current, new_data)

\* App::merge_in
merge_in(app, new_data) ==
    IF app.current_system = None
    THEN [app |-> app, panicked |-> FALSE]
    ELSE merge_into(app, app.current_system[1], new_data)

\* App::system_signatures
system_signatures(app) ==
    IF app.current_system # None /\ app.current_system[1] \in DOMAIN app.system_data
    THEN app.system_data[app.current_system[1]]
    ELSE <<>>

\* App::new
AppNew ==
    App(Some(s_J173213),
        [s \in {s_J173213} |->
            <<Signature(s_ABC, s_123, Combat(Some(s_SomeCombatSite))),
              Signature(s_DEF, s_456,
                        Wormhole(SignatureWormhole(Some(s_K162), None, "Stable", "Stable")))>>],
        0,
        Normal)

(***************************************************************************)
(* Inputs.                                                                 *)
(***************************************************************************)
id_ABC_123 == s_ABC \o s_dash \o s_123
id_DEF_456 == s_DEF \o s_dash \o s_456
id_GHI_789 == s_GHI \o s_dash \o s_789
id_ABC123 == s_ABC \o s_123
id_ABC_123_4 == s_ABC \o s_dash \o s_123 \o s_dash \o s_4

\* the items the hand-built batches are made of
Candidates ==
    { ClipboardItem(id_ABC_123, s_empty, s_empty),
      ClipboardItem(id_ABC_123, s_Wormhole, s_empty),
      ClipboardItem(id_ABC_123, s_Relic, s_empty),
      ClipboardItem(id_ABC_123, s_Relic, s_Foobar),
      ClipboardItem(id_ABC_123, s_Gas, s_empty),
      ClipboardItem(id_GHI_789, s_Gas, s_empty),
      ClipboardItem(id_ABC123, s_Relic, s_Foobar),
      ClipboardItem(id_ABC_123_4, s_Relic, s_Foobar) }

SeqsUpTo(S, n) == UNION {[1..k -> S] : k \in 0..n}

line_relic == Join(<<id_ABC_123, s_CosmicSignature, s_Relic \o s_Site, s_Foobar>>, <<"\t">>)
line_wormhole == Join(<<id_DEF_456, s_CosmicSignature, s_Wormhole, s_UnstableWormhole>>, <<"\t">>)
line_unscanned == Join(<<id_GHI_789, s_CosmicSignature, s_empty, s_empty>>, <<"\t">>)
line_gas == Join(<<id_GHI_789, s_CosmicSignature, s_Gas \o s_Site>>, <<"\t">>)
line_nodash == Join(<<id_ABC123, s_CosmicSignature, s_Relic \o s_Site, s_Foobar>>, <<"\t">>)

\* clipboard texts
Texts ==
    { s_empty,
      s_blank,
      s_nonsense,
      Join(<<line_relic, line_wormhole>>, <<"\n">>),
      Join(<<line_relic, s_nonsense, line_gas>>, <<"\n">>),
      line_unscanned \o <<"\n">>,
      line_nodash,
      Join(<<line_gas, line_unscanned>>, <<"\n">>),
      Join(<<line_nodash, line_gas>>, <<"\n">>) }

\* the batches merge_in is called with: hand-built ones and parsed texts
Batches == SeqsUpTo(Candidates, MaxBatch) \cup {parse_paste(t) : t \in Texts}

Systems == {s_J173213, s_Thera}

\* the lists the tests of state.rs store before they merge
SeedLists ==
    { <<Signature(s_ABC, s_123, Data(Some(s_Foobar)))>>,
      <<Signature(s_ABC, s_123, Unknown)>>,
      <<Signature(s_ABC, s_123, Relic(None))>>,
      <<Signature(s_ABC, s_123, Relic(Some(s_Foobar)))>>,
      <<Signature(s_ABC, s_123,
                  Wormhole(SignatureWormhole(Some(s_A239), None, "EndOfLife", "Stable")))>> }

(***************************************************************************)
(* The state machine.                                                      *)
(***************************************************************************)
TheApp == App(current_system, system_data, data_index, view)

\* last is a history variable: the App before the latest merge_in and its batch,
\* until the result is read
NoLast == [op |-> "none", before |-> AppNew, new_data |-> <<>>]

Init ==
    /\ current_system = AppNew.current_system
    /\ system_data = AppNew.system_data
    /\ data_index = AppNew.data_index
    /\ view = AppNew.view
    /\ panicked = FALSE
    /\ merges = 0
    /\ last = NoLast

\* app.current_system = ...: the field is public; the tests select "Thera"
SetCurrentSystem(cur) ==
    /\ ~panicked
    /\ current_system' = cur
    /\ last' = NoLast
    /\ UNCHANGED <<system_data, data_index, view, panicked, merges>>

\* app.system_data.insert(name, list): the tests store a list, and they do so
\* before their first merge (merges = 0 keeps the model to that)
InsertSystemData(name, list) ==
    /\ ~panicked
    /\ merges = 0
    /\ system_data' = MapInsert(system_data, name, list)
    /\ last' = NoLast
    /\ UNCHANGED <<current_system, data_index, view, panicked, merges>>

\* app.merge_in(new_data).  The record of the call before it has been cleared:
\* Observe changes no field of the App, so every sequence of calls is a behaviour.
MergeIn(new_data) ==
    /\ ~panicked
    /\ merges < MaxMerges
    /\ last = NoLast
    /\ LET r == merge_in(TheApp, new_data)
       IN /\ current_system' = r.app.current_system
          /\ system_data' = r.app.system_data
          /\ data_index' = r.app.data_index
          /\ view' = r.app.view
          /\ panicked' = r.panicked
    /\ merges' = merges + 1
    /\ last' = [op |-> "merge_in", before |-> TheApp, new_data |-> new_data]

\* the asserts after a merge_in that returned: they read the App and change nothing
Observe ==
    /\ ~panicked
    /\ last.op = "merge_in"
    /\ last' = NoLast
    /\ UNCHANGED <<current_system, system_data, data_index, view, panicked, merges>>

Next ==
    \/ \E cur \in {None} \cup {Some(s) : s \in Systems} : SetCurrentSystem(cur)
    \/ \E list \in SeedLists : InsertSystemData(s_Thera, list)
    \/ \E new_data \in Batches : MergeIn(new_data)
    \/ Observe

Spec == Init /\ [][Next]_vars

(***************************************************************************)
(* What the last merge_in saw and left.                                    *)
(***************************************************************************)
Merged == last.op = "merge_in"

\* the last call ran with a system selected
MergedInto == Merged /\ last.before.current_system # None

\* the selected system's list before and after the last call
PreList == system_signatures(last.before)

PostList == system_signatures(TheApp)

\* the item pass 1 looks up for the i-th signature of the list before: the first
\* item of the batch whose identifier text is the signature's "group-number", or 0
SigText(i) == PreList[i].identifier.id \o <<"-">> \o PreList[i].identifier.number

Matching(i) == FindCandidate(last.new_data, SigText(i))

SiteCategories == {s_Gas, s_Relic, s_Data, s_Combat}

\* the variant a candidate's site category names
KindOfCategory(c) ==
    CASE c = s_Gas -> "Gas"
      [] c = s_Relic -> "Relic"
      [] c = s_Data -> "Data"
      [] c = s_Combat -> "Combat"

\* a populated site name
HasSiteName(t) == t.kind \in NamedKinds /\ t.name # None

\* detail recorded on a signature: a populated site name, or wormhole detail
HasDetail(t) == HasSiteName(t) \/ t.kind = "Wormhole"

(***************************************************************************)
(* C1: merge_in is idempotent: after a merge of batch C that returned,     *)
(* merging the same C again leaves the App exactly as it is.               *)
(* The code breaks it for a batch that lists a new identifier twice.       *)
(***************************************************************************)
C1_MergeIdempotent ==
    (Merged /\ ~panicked) => merge_in(TheApp, last.new_data).app = TheApp

(***************************************************************************)
(* C2, as claimed: detail recorded on an existing signature changes only   *)
(* when the item looked up for it carries a non-empty name.                *)
(***************************************************************************)
C2_DetailChangesOnlyByNamedCandidate ==
    MergedInto =>
        \A i \in 1..Len(PreList) :
            (HasDetail(PreList[i].signature_type)
                /\ PostList[i].signature_type # PreList[i].signature_type)
            => (Matching(i) # 0 /\ last.new_data[Matching(i)].sig_name # <<>>)

(***************************************************************************)
(* C2, amended: a populated site name changes only when the item looked up *)
(* for the signature is a site category with a non-empty name or has the   *)
(* category "Wormhole"; wormhole detail changes only when that item is a   *)
(* site category with a non-empty name.  An item that is uncategorised, or *)
(* a site category without a name, never changes recorded detail.          *)
(***************************************************************************)
C2_DetailChangesOnlyByNamedOrWormhole ==
    MergedInto =>
        \A i \in 1..Len(PreList) :
            (HasDetail(PreList[i].signature_type)
                /\ PostList[i].signature_type # PreList[i].signature_type)
            => /\ Matching(i) # 0
               /\ LET c == last.new_data[Matching(i)]
                  IN \/ c.sig_type \in SiteCategories /\ c.sig_name # <<>>
                     \/ /\ c.sig_type = s_Wormhole
                        /\ PreList[i].signature_type.kind # "Wormhole"

\* the second merge of a run kept recorded detail against a looked-up item that
\* carries neither a name nor the category "Wormhole"
C2_Witness ==
    /\ MergedInto
    /\ \E i \in 1..Len(PreList) :
          /\ HasDetail(PreList[i].signature_type)
          /\ Matching(i) # 0
          /\ last.new_data[Matching(i)].sig_name = <<>>
          /\ last.new_data[Matching(i)].sig_type # s_Wormhole
          /\ PostList[i] = PreList[i]
    /\ merges = 2

(***************************************************************************)
(* C3: a signature with a populated site name, whose looked-up item has    *)
(* the same site category and an empty name, keeps its classification.     *)
(***************************************************************************)
C3_NameKept ==
    MergedInto =>
        \A i \in 1..Len(PreList) :
            (/\ HasSiteName(PreList[i].signature_type)
             /\ Matching(i) # 0
             /\ last.new_data[Matching(i)].sig_type \in SiteCategories
             /\ KindOfCategory(last.new_data[Matching(i)].sig_type)
                    = PreList[i].signature_type.kind
             /\ last.new_data[Matching(i)].sig_name = <<>>)
            => PostList[i].signature_type = PreList[i].signature_type

C3_Witness ==
    /\ MergedInto
    /\ \E i \in 1..Len(PreList) :
          /\ PreList[i].signature_type = Relic(Some(s_Foobar))
          /\ Matching(i) # 0
          /\ last.new_data[Matching(i)] = ClipboardItem(id_ABC_123, s_Relic, s_empty)
          /\ PostList[i].signature_type = Relic(Some(s_Foobar))

(***************************************************************************)
(* C4: a signature classified Wormhole, whose looked-up item has category  *)
(* "Wormhole", keeps its type code, destination, life and mass.            *)
(***************************************************************************)
C4_WormholeDetailKept ==
    MergedInto =>
        \A i \in 1..Len(PreList) :
            (/\ PreList[i].signature_type.kind = "Wormhole"
             /\ Matching(i) # 0
             /\ last.new_data[Matching(i)].sig_type = s_Wormhole)
            => /\ PostList[i].signature_type.kind = "Wormhole"
               /\ PostList[i].signature_type.wh = PreList[i].signature_type.wh

C4_Witness ==
    /\ MergedInto
    /\ \E i \in 1..Len(PreList) :
          /\ PreList[i].signature_type.kind = "Wormhole"
          /\ PreList[i].signature_type.wh # SignatureWormholeDefault
          /\ Matching(i) # 0
          /\ last.new_data[Matching(i)].sig_type = s_Wormhole
          /\ PostList[i].signature_type.wh.life = "EndOfLife"

(***************************************************************************)
(* C5: every item of the batch whose identifier is not in the list before  *)
(* the merge is appended once, with that identifier and the classification *)
(* derived from it, after the entries that were there, in batch order; the *)
(* entries that were there keep their count and order.                     *)
(* The code breaks it when an item's text has no '-': the conversion       *)
(* panics (C8) and the items after it are never appended.                  *)
(***************************************************************************)
C5_AppendsEveryNewCandidate ==
    MergedInto =>
        LET pre_ids == {PreList[i].identifier : i \in 1..Len(PreList)}
            IsNew(c) == CanConvert(c) /\ FromClipboardItem(c).identifier \notin pre_ids
            new == SelectSeq(last.new_data, IsNew)
        IN /\ Len(PostList) = Len(PreList) + Len(new)
           /\ \A j \in 1..Len(new) : PostList[Len(PreList) + j] = FromClipboardItem(new[j])
           /\ \A i \in 1..Len(PreList) : PostList[i].identifier = PreList[i].identifier

\* the same, of the calls that return: this much the code does
C5_AppendsWhenMergeReturns == panicked \/ C5_AppendsEveryNewCandidate

(***************************************************************************)
(* C6: merge_in never deletes or moves a signature: every signature of the *)
(* list before is at the same index with the same identifier afterwards,   *)
(* one for which the batch holds no item is unchanged, and an empty batch  *)
(* leaves the list as it was (an empty list for a system that had none).   *)
(***************************************************************************)
C6_NeverDeletesOrMoves ==
    MergedInto =>
        /\ last.before.current_system[1] \in DOMAIN system_data
        /\ Len(PostList) >= Len(PreList)
        /\ \A i \in 1..Len(PreList) :
              /\ PostList[i].identifier = PreList[i].identifier
              /\ Matching(i) = 0 => PostList[i] = PreList[i]
        /\ last.new_data = <<>> => PostList = PreList

\* the second merge of a run lists none of the identifiers of a signature that an
\* earlier merge appended, and that signature is still there
C6_Witness ==
    /\ MergedInto
    /\ ~panicked
    /\ merges = 2
    /\ last.new_data # <<>>
    /\ Len(PreList) >= 3
    /\ Matching(3) = 0
    /\ PostList[3] = PreList[3]

C8_MergeNeverPanics == ~panicked

(***************************************************************************)
(* C9: with no system selected, merge_in leaves the map of lists, the      *)
(* selected system, the cursor and the view mode unchanged, and returns.   *)
(***************************************************************************)
C9_NoSystemNoOp ==
    (Merged /\ last.before.current_system = None) => (TheApp = last.before /\ ~panicked)

C9_Witness ==
    /\ Merged
    /\ last.before.current_system = None
    /\ Len(last.new_data) = 2
    /\ s_Thera \in DOMAIN system_data

(***************************************************************************)
(* C10, as claimed: merging [("ABC123", "Relic", "Foobar")] into           *)
(* [Signature("ABC", "123", Relic(None))] yields                           *)
(* [Signature("ABC", "123", Relic(Some("Foobar")))].                       *)
(***************************************************************************)
C10_ContiguousTextMatches ==
    (/\ MergedInto
     /\ PreList = <<Signature(s_ABC, s_123, Relic(None))>>
     /\ last.new_data = <<ClipboardItem(id_ABC123, s_Relic, s_Foobar)>>)
    => PostList = <<Signature(s_ABC, s_123, Relic(Some(s_Foobar)))>>

(***************************************************************************)
(* C10, amended: the identifier text that matches the signature with group *)
(* "ABC" and number "123" is the group, a '-' and the number, "ABC-123":   *)
(* merging [("ABC-123", "Relic", "Foobar")] into                           *)
(* [Signature("ABC", "123", Relic(None))] yields the one-element list      *)
(* [Signature("ABC", "123", Relic(Some("Foobar")))]; the text "ABC123"     *)
(* matches no signature.                                                   *)
(***************************************************************************)
C10_DashedTextMatches ==
    MergedInto =>
        /\ (/\ PreList = <<Signature(s_ABC, s_123, Relic(None))>>
            /\ last.new_data = <<ClipboardItem(id_ABC_123, s_Relic, s_Foobar)>>)
           => (PostList = <<Signature(s_ABC, s_123, Relic(Some(s_Foobar)))>> /\ ~panicked)
        /\ (\A j \in 1..Len(last.new_data) : IndexOf(last.new_data[j].id, "-") = 0)
           => \A i \in 1..Len(PreList) : PostList[i] = PreList[i]

C10_Witness ==
    /\ MergedInto
    /\ PreList = <<Signature(s_ABC, s_123, Relic(None))>>
    /\ last.new_data = <<ClipboardItem(id_ABC_123, s_Relic, s_Foobar)>>
    /\ PostList = <<Signature(s_ABC, s_123, Relic(Some(s_Foobar)))>>

(***************************************************************************)
(* parse_paste on its own: the clipboard holds a text, parse_paste reads   *)
(* it.  last records the text and then the items returned.                 *)
(***************************************************************************)
s_AB == <<"A", "B">>
s_signal == <<"5", ".", "2", "%">>
s_distance == <<"4", ".", "0", "2", " ", "A", "U">>

line_twofields == Join(<<id_ABC_123, s_CosmicSignature>>, <<"\t">>)
line_data == Join(<<id_DEF_456, s_CosmicSignature, s_Data \o s_Site, s_Foobar,
                    s_signal, s_distance>>, <<"\t">>)
line_combat == Join(<<id_GHI_789, s_CosmicSignature, s_Combat \o s_Site,
                      s_SomeCombatSite>>, <<"\t">>)
line_ore == Join(<<id_GHI_789, s_CosmicSignature, s_Ore \o s_Site, s_Foobar>>, <<"\t">>)
line_gasplain == Join(<<id_GHI_789, s_CosmicSignature, s_Gas, s_Foobar>>, <<"\t">>)
line_shortid == Join(<<s_AB, s_CosmicSignature, s_Gas \o s_Site, s_Foobar>>, <<"\t">>)
line_longid == Join(<<id_ABC_123_4, s_CosmicSignature, s_Wormhole>>, <<"\t">>)
line_tabs == <<"\t", "\t">>

\* the lines clipboard texts are made of
ScanLines ==
    { line_relic, line_wormhole, line_unscanned, line_gas, line_nodash,
      line_twofields, line_data, line_combat, line_ore, line_gasplain,
      line_shortid, line_longid, line_tabs, s_nonsense, s_blank, s_empty }

\* texts of up to MaxLines lines, with and without a final line break
ClipTexts ==
    { Join(ls, <<"\n">>) \o end : ls \in SeqsUpTo(ScanLines, MaxLines),
                                  end \in {<<>>, <<"\n">>} }

\* cli_clipboard::get_contents() has returned text
InitParse ==
    /\ current_system = AppNew.current_system
    /\ system_data = AppNew.system_data
    /\ data_index = AppNew.data_index
    /\ view = AppNew.view
    /\ panicked = FALSE
    /\ merges = 0
    /\ last \in {[op |-> "get_contents", text |-> t, results |-> <<>>] : t \in ClipTexts}

\* let results = parse_paste(&clipboard)
ParsePaste ==
    /\ last.op = "get_contents"
    /\ last' = [op |-> "parse_paste", text |-> last.text, results |-> parse_paste(last.text)]
    /\ UNCHANGED <<current_system, system_data, data_index, view, panicked, merges>>

NextParse == ParsePaste

SpecParse == InitParse /\ [][NextParse]_vars

Parsed == last.op = "parse_paste"

\* the lines of the text parsed last
TextLines == SplitTerminator(last.text, "\n")

\* the tab-separated fields of a line
Fields(line) == Split(line, "\t")

HasThreeFields(line) == Len(Fields(line)) >= 3

\* the first n characters of s, all of s when it is shorter
FirstChars(s, n) == [i \in 1..(IF Len(s) < n THEN Len(s) ELSE n) |-> s[i]]

\* the candidate a line with three fields or more stands for
CandidateOf(line) ==
    LET third == Fields(line)[3]
        fourth == IF Len(Fields(line)) >= 4 THEN Fields(line)[4] ELSE <<>>
        site == CHOOSE c \in SiteCategories \cup {<<>>} :
                    \/ third = c \o s_Site /\ c # <<>>
                    \/ c = <<>> /\ \A d \in SiteCategories : third # d \o s_Site
    IN [id |-> FirstChars(line, 7),
        sig_type |-> IF third = s_Wormhole THEN s_Wormhole ELSE site,
        sig_name |-> IF site # <<>> THEN fourth ELSE <<>>]

\* one candidate per line with three fields or more, in the order of the lines
CandidatesInOrder ==
    LET full == SelectSeq(TextLines, HasThreeFields)
    IN last.results = [i \in 1..Len(full) |-> CandidateOf(full[i])]

\* C11 as stated: parse_paste maps every line with three tab-separated fields or
\* more to exactly one candidate, in input order and without deduplication; its
\* identifier is the first 7 characters of the line, "Wormhole" gives category
\* "Wormhole" with an empty name, a "... Site" label gives the category without
\* " Site" and the fourth field as name, any other third field gives an empty
\* category and name.  (Fails for a text of tabs only: three fields, no candidate.)
C11_EveryLineYieldsCandidate == Parsed => CandidatesInOrder

\* C11, amended: the same for every text that is not empty or whitespace-only
C11_EveryLineOfNonBlankText ==
    (Parsed /\ ~(\A i \in 1..Len(last.text) : last.text[i] \in Whitespace))
        => CandidatesInOrder

\* a text whose two lines start with the same 7 characters: both candidates are
\* returned, in the order of the lines
C11_Witness ==
    /\ Parsed
    /\ last.text = Join(<<line_relic, line_longid>>, <<"\n">>) \o <<"\n">>
    /\ last.results = <<ClipboardItem(id_ABC_123, s_Relic, s_Foobar),
                        ClipboardItem(id_ABC_123, s_Wormhole, s_empty)>>

\* C12: parse_paste returns no candidate for an empty or whitespace-only text, and
\* in any other text it skips the lines with fewer than three tab-separated fields:
\* the candidates returned are as many as the remaining lines, and carry their
\* identifiers in order
C12_BlankAndShortLinesSkipped ==
    Parsed =>
        LET blank == \A i \in 1..Len(last.text) : last.text[i] \in Whitespace
            kept == SelectSeq(TextLines, HasThreeFields)
        IN /\ blank => last.results = <<>>
           /\ ~blank =>
                 /\ Len(last.results) = Len(kept)
                 /\ \A i \in 1..Len(kept) : last.results[i].id = FirstChars(kept[i], 7)

\* a line without tabs is skipped and the line after it still yields its candidate
C12_Witness ==
    /\ Parsed
    /\ last.text = Join(<<s_nonsense, line_gas>>, <<"\n">>)
    /\ last.results = <<ClipboardItem(id_GHI_789, s_Gas, s_empty)>>

(***************************************************************************)
(* interface.rs: the loop of run.  Every turn redraws (and counts the      *)
(* signatures shown), then handles one key.  last records the key handled  *)
(* and the App before it, until the next redraw.                           *)
(***************************************************************************)
Adding(sig) == [mode |-> "Adding", sig |-> sig]

Editing(sig) == [mode |-> "Editing", sig |-> sig]

\* Signature::default()
SignatureDefault == Signature(s_empty, s_empty, Unknown)

\* let system_sig_count = app.system_signatures().len()
system_sig_count == Len(system_signatures(TheApp))

\* mutant: Down at the last index wraps around to the first
DownIndex_Wraps(index, count) ==
    IF count > 1 /\ index < count - 1 THEN index + 1 ELSE 0

\* KeyCode::Down: the cursor afterwards
DownIndex(index, count) ==
    IF count > 1 /\ index < count - 1 THEN index + 1 ELSE index

\* KeyCode::Up: the cursor afterwards
UpIndex(index, count) ==
    IF count > 1 /\ index > 0 THEN index - 1 ELSE index

Handled(key) == [op |-> key, before |-> TheApp, new_data |-> <<>>]

KeyEsc ==
    /\ ~panicked
    /\ last = NoLast
    /\ view' = Normal
    /\ last' = Handled("Esc")
    /\ UNCHANGED <<current_system, system_data, data_index, panicked, merges>>

\* data.get(app.data_index).unwrap() panics when the cursor is past the list
KeyEnter ==
    /\ ~panicked
    /\ last = NoLast
    /\ view = Normal
    /\ IF /\ system_sig_count > 0
          /\ current_system # None
          /\ current_system[1] \in DOMAIN system_data
       THEN LET data == system_data[current_system[1]]
            IN IF data_index < Len(data)
               THEN view' = Editing(data[data_index + 1]) /\ panicked' = FALSE
               ELSE view' = view /\ panicked' = TRUE
       ELSE UNCHANGED <<view, panicked>>
    /\ last' = Handled("Enter")
    /\ UNCHANGED <<current_system, system_data, data_index, merges>>

KeyDown ==
    /\ ~panicked
    /\ last = NoLast
    /\ view = Normal
    /\ data_index' = DownIndex(data_index, system_sig_count)
    /\ last' = Handled("Down")
    /\ UNCHANGED <<current_system, system_data, view, panicked, merges>>

KeyUp ==
    /\ ~panicked
    /\ last = NoLast
    /\ view = Normal
    /\ data_index' = UpIndex(data_index, system_sig_count)
    /\ last' = Handled("Up")
    /\ UNCHANGED <<current_system, system_data, view, panicked, merges>>

KeyN ==
    /\ ~panicked
    /\ last = NoLast
    /\ view = Normal
    /\ view' = Adding(SignatureDefault)
    /\ last' = Handled("n")
    /\ UNCHANGED <<current_system, system_data, data_index, panicked, merges>>

\* 'v': the clipboard is parsed and the result is dropped (the arm ends in a TODO)
KeyV(clipboard) ==
    /\ ~panicked
    /\ last = NoLast
    /\ view = Normal
    /\ LET results == parse_paste(clipboard)
       IN last' = [op |-> "v", before |-> TheApp, new_data |-> results,
                   text |-> clipboard]
    /\ UNCHANGED <<current_system, system_data, data_index, view, panicked, merges>>

\* 'q' leaves the loop
KeyQ ==
    /\ ~panicked
    /\ last = NoLast
    /\ view = Normal
    /\ last' = Handled("q")
    /\ UNCHANGED <<current_system, system_data, data_index, view, panicked, merges>>

\* the next turn of the loop: terminal.draw reads the App
Redraw ==
    /\ ~panicked
    /\ last.op \notin {"none", "q"}
    /\ last' = NoLast
    /\ UNCHANGED <<current_system, system_data, data_index, view, panicked, merges>>

\* the batches a paste can hand to merge_in
PastedBatches == {parse_paste(t) : t \in Texts}

NextUI ==
    \/ KeyEsc
    \/ KeyEnter
    \/ KeyDown
    \/ KeyUp
    \/ KeyN
    \/ \E clipboard \in Texts : KeyV(clipboard)
    \/ KeyQ
    \/ \E new_data \in PastedBatches : MergeIn(new_data)
    \/ Redraw

SpecUI == Init /\ [][NextUI]_vars

\* C13: in every state reached by key events and merges, a displayed list of
\* count >= 1 signatures has the cursor in 0..count-1; Down at the last index and
\* Up at index 0 leave the cursor where it is; the lookup of Enter never fails
C13_CursorInBounds ==
    /\ system_sig_count >= 1 => data_index \in 0..(system_sig_count - 1)
    /\ (last.op = "Down" /\ last.before.data_index = system_sig_count - 1)
           => data_index = last.before.data_index
    /\ (last.op = "Up" /\ last.before.data_index = 0) => data_index = 0
    /\ last.op = "Enter" => ~panicked

\* Down is pressed with the cursor on the last of three signatures, the third
\* appended by a merge
C13_Witness ==
    /\ last.op = "Down"
    /\ merges >= 1
    /\ system_sig_count = 3
    /\ last.before.data_index = 2
    /\ data_index = 2

\* C14: a merge_in changes the list of the selected system only, the lists of all
\* other systems stay as they were, and selecting a system changes no list: a
\* system left, while another is merged into, is found again exactly as it was left
C14_OtherSystemsUnchanged ==
    [][ /\ last'.op = "merge_in" =>
              \A s \in DOMAIN system_data :
                  (current_system = None \/ s # current_system[1])
                      => (s \in DOMAIN system_data' /\ system_data'[s] = system_data[s])
        /\ current_system' # current_system => system_data' = system_data ]_vars

\* the second merge goes into Thera and leaves a list there, after the first
\* changed the list of J173213, which is still as the first merge left it
C14_Witness ==
    /\ Merged
    /\ merges = 2
    /\ last.before.current_system = Some(s_Thera)
    /\ system_data[s_Thera] # <<>>
    /\ system_data[s_J173213] # AppNew.system_data[s_J173213]
    /\ system_data[s_J173213] = last.before.system_data[s_J173213]

(***************************************************************************)
(* The conversion of a candidate on its own: an item is built with         *)
(* ClipboardItem::new and converted with into().  last records the item    *)
(* and then the pair returned.                                             *)
(***************************************************************************)
ItemIds == {id_ABC_123, id_GHI_789, id_ABC123, id_ABC_123_4}

ItemCategories == {s_empty, s_Wormhole, s_Gas, s_Relic, s_Data, s_Combat, s_Ore}

ItemNames == {s_empty, s_Foobar, s_SomeCombatSite}

\* ClipboardItem::new(id, sig_type, sig_name)
Items ==
    {ClipboardItem(id, c, n) : id \in ItemIds, c \in ItemCategories, n \in ItemNames}

InitFrom ==
    /\ current_system = AppNew.current_system
    /\ system_data = AppNew.system_data
    /\ data_index = AppNew.data_index
    /\ view = AppNew.view
    /\ panicked = FALSE
    /\ merges = 0
    /\ last \in {[op |-> "new", item |-> it, result |-> <<>>] : it \in Items}

\* let (id, st) = item.into(); the unwrap of a missing id part panics
Convert ==
    /\ last.op = "new"
    /\ IF CanConvert(last.item)
       THEN /\ panicked' = FALSE
            /\ last' = [op |-> "into", item |-> last.item,
                        result |-> <<FromClipboardItem(last.item)>>]
       ELSE /\ panicked' = TRUE
            /\ last' = [op |-> "into", item |-> last.item, result |-> <<>>]
    /\ UNCHANGED <<current_system, system_data, data_index, view, merges>>

NextFrom == Convert

SpecFrom == InitFrom /\ [][NextFrom]_vars

Converted == last.op = "into" /\ ~panicked

\* the variant a category names, "Ore" included
VariantOfCategory(c) ==
    CASE c = s_Combat -> "Combat"
      [] c = s_Ore -> "Ore"
      [] c = s_Data -> "Data"
      [] c = s_Relic -> "Relic"
      [] c = s_Gas -> "Gas"

\* the classification a candidate's category and name stand for
ClassificationOf(item) ==
    IF item.sig_type = <<>>
    THEN Unknown
    ELSE IF item.sig_type = s_Wormhole
         THEN Wormhole(SignatureWormhole(None, None, "Stable", "Stable"))
         ELSE [kind |-> VariantOfCategory(item.sig_type),
               name |-> IF item.sig_name = <<>> THEN None ELSE Some(item.sig_name)]

\* C15: the classification derived from a candidate is Unknown for an empty
\* category, the default wormhole for "Wormhole", and otherwise the variant named
\* by the category (Combat, Ore, Data, Relic or Gas) with the candidate's name, or
\* with no name when the name field is empty.  (Fails for "Ore": derived Unknown.)
C15_ClassificationByCategory ==
    Converted => last.result[1].signature_type = ClassificationOf(last.item)

\* what does hold: the same for every category but "Ore"
C15_ClassificationExceptOre ==
    (Converted /\ last.item.sig_type # s_Ore)
        => last.result[1].signature_type = ClassificationOf(last.item)

\* C16: a signature whose matching candidate (the one pass 1 looks up) derives the
\* classification Unknown is identical before and after merge_in, whatever its
\* own classification
C16_UnknownCandidateChangesNothing ==
    MergedInto =>
        \A i \in 1..Len(PreList) :
            (/\ Matching(i) # 0
             /\ CanConvert(last.new_data[Matching(i)])
             /\ FromClipboardItem(last.new_data[Matching(i)]).signature_type = Unknown)
                => (i <= Len(PostList) /\ PostList[i] = PreList[i])

\* an uncategorised line for ABC-123 is merged into a list that holds ABC-123 as a
\* named relic site
C16_Witness ==
    /\ MergedInto
    /\ ~panicked
    /\ PreList = <<Signature(s_ABC, s_123, Relic(Some(s_Foobar)))>>
    /\ last.new_data = <<ClipboardItem(id_ABC_123, s_empty, s_empty)>>
    /\ PostList = PreList

\* C17: a paste in the normal view parses the clipboard and merges the candidates
\* in one step: once the 'v' key is handled, and before the next redraw, the list
\* of the selected system is the merge of the parsed clipboard into the list before.
\* (Fails: the handler parses and stops; the list is the one before.)
C17_PasteParsesThenMerges ==
    last.op = "v" =>
        system_signatures(TheApp) =
            system_signatures(merge_in(last.before, parse_paste(last.text)).app)

\* what the handler does instead: the App after 'v' is the App before it
C17_PasteChangesNothing == last.op = "v" => (TheApp = last.before /\ ~panicked)

\* C18: the lists start with pairwise distinct identifiers, and after any sequence
\* of merge_in calls, with any batches, no two signatures of a list share an
\* identifier.  (Fails for a batch that lists a new identifier twice.)
C18_IdentifiersUnique ==
    \A s \in DOMAIN system_data :
        \A i, j \in 1..Len(system_data[s]) :
            i # j => system_data[s][i].identifier # system_data[s][j].identifier

\* the candidates of the latest batch whose identifier text no signature of the
\* list rendered in pass 1
Unmatched ==
    LET NoneRenders(c) == \A i \in 1..Len(PreList) : SigText(i) # c.id
    IN SelectSeq(last.new_data, NoneRenders)

\* the signatures appended are those of the unmatched candidates, one each, in order
AppendedAreUnmatched ==
    /\ Len(PostList) = Len(PreList) + Len(Unmatched)
    /\ \A k \in 1..Len(Unmatched) :
           /\ CanConvert(Unmatched[k])
           /\ PostList[Len(PreList) + k] = FromClipboardItem(Unmatched[k])

\* C19: the two passes agree: in every merge_in that returns, a candidate is
\* appended in pass 2 exactly when no signature matched its identifier text in
\* pass 1; none is both applied and appended, none is dropped without either.
\* (Fails for "ABC-123-4" against ABC-123: not matched by text, found by split id,
\* so neither applied nor appended.)
C19_PassesAgree == (MergedInto /\ ~panicked) => AppendedAreUnmatched

\* what does hold: the passes agree on batches whose identifiers all split at '-'
\* into exactly two pieces
C19_PassesAgreeOnTwoPartIds ==
    (MergedInto /\ \A k \in 1..Len(last.new_data) :
                       Len(Split(last.new_data[k].id, "-")) = 2)
        => AppendedAreUnmatched

====
